---- MODULE Spec2Model ----
(***************************************************************************)
(* AES-GCM-SIV wrapper crate (src/src/lib.rs): encrypt, decrypt and        *)
(* generate_nonce, together with the RFC 8452 algorithm the wrapper calls  *)
(* into (the aes_gcm_siv crate; modelled here from spec.md sections        *)
(* 4.1 - 4.4 and pinned by the test vectors of src/tests/test_vectors.rs). *)
(* Byte strings are sequences of integers 0..255.                          *)
(***************************************************************************)
EXTENDS Integers, Sequences, FiniteSets, TLC

VARIABLES
  pc,            \* "start" | "encrypted" | "decrypted" | "aborted"
  key_bytes,     \* the caller's key
  have_nonce,    \* FALSE until the caller holds a nonce
  nonce_bytes,   \* the caller's nonce (given, or from generate_nonce)
  input,         \* the plaintext handed to encrypt
  aad_bytes,     \* the aad handed to encrypt
  os_rng,        \* what the OS random source answers to successive requests
  gen,           \* what generate_nonce did: [called, panicked, val, requests]
  enc,           \* what encrypt did: [result, calls]
  dec_input,     \* the bytes handed to decrypt
  dec_aad,       \* the aad handed to decrypt
  dec            \* what decrypt did: [result, calls]

vars ==
  <<pc, key_bytes, have_nonce, nonce_bytes, input, aad_bytes, os_rng, gen, enc,
    dec_input, dec_aad, dec>>

(***************************************************************************)
(* Constants of the crate                                                  *)
(***************************************************************************)
NONCE_LENGTH == 12

TAG_LENGTH == 16

(***************************************************************************)
(* Bounds of the model                                                     *)
(***************************************************************************)
\* how many of the candidate plaintexts (PlainAt) the callers use
MaxPlain == 4

\* how many of the candidate aads (AadAt) the callers use
MaxAad == 4

\* how many of the candidate plaintexts (TamperPlainAt) the tampering runs use
MaxTamperPlain == 2

(***************************************************************************)
(* Byte arithmetic.  TLA+ has no exclusive-or: it is tabulated on nibbles.  *)
(***************************************************************************)
XorNibble ==
  <<
     << 0,  1,  2,  3,  4,  5,  6,  7,  8,  9, 10, 11, 12, 13, 14, 15>>,
     << 1,  0,  3,  2,  5,  4,  7,  6,  9,  8, 11, 10, 13, 12, 15, 14>>,
     << 2,  3,  0,  1,  6,  7,  4,  5, 10, 11,  8,  9, 14, 15, 12, 13>>,
     << 3,  2,  1,  0,  7,  6,  5,  4, 11, 10,  9,  8, 15, 14, 13, 12>>,
     << 4,  5,  6,  7,  0,  1,  2,  3, 12, 13, 14, 15,  8,  9, 10, 11>>,
     << 5,  4,  7,  6,  1,  0,  3,  2, 13, 12, 15, 14,  9,  8, 11, 10>>,
     << 6,  7,  4,  5,  2,  3,  0,  1, 14, 15, 12, 13, 10, 11,  8,  9>>,
     << 7,  6,  5,  4,  3,  2,  1,  0, 15, 14, 13, 12, 11, 10,  9,  8>>,
     << 8,  9, 10, 11, 12, 13, 14, 15,  0,  1,  2,  3,  4,  5,  6,  7>>,
     << 9,  8, 11, 10, 13, 12, 15, 14,  1,  0,  3,  2,  5,  4,  7,  6>>,
     <<10, 11,  8,  9, 14, 15, 12, 13,  2,  3,  0,  1,  6,  7,  4,  5>>,
     <<11, 10,  9,  8, 15, 14, 13, 12,  3,  2,  1,  0,  7,  6,  5,  4>>,
     <<12, 13, 14, 15,  8,  9, 10, 11,  4,  5,  6,  7,  0,  1,  2,  3>>,
     <<13, 12, 15, 14,  9,  8, 11, 10,  5,  4,  7,  6,  1,  0,  3,  2>>,
     <<14, 15, 12, 13, 10, 11,  8,  9,  6,  7,  4,  5,  2,  3,  0,  1>>,
     <<15, 14, 13, 12, 11, 10,  9,  8,  7,  6,  5,  4,  3,  2,  1,  0>>
  >>

\* exclusive-or of two bytes
Xor8(a, b) ==
  XorNibble[(a \div 16) + 1][(b \div 16) + 1] * 16 + XorNibble[(a % 16) + 1][(b % 16) + 1]

XorWord(a, b) == <<Xor8(a[1], b[1]), Xor8(a[2], b[2]), Xor8(a[3], b[3]), Xor8(a[4], b[4])>>

XorBlock(a, b) ==
  <<Xor8(a[1], b[1]), Xor8(a[2], b[2]), Xor8(a[3], b[3]), Xor8(a[4], b[4]),
    Xor8(a[5], b[5]), Xor8(a[6], b[6]), Xor8(a[7], b[7]), Xor8(a[8], b[8]),
    Xor8(a[9], b[9]), Xor8(a[10], b[10]), Xor8(a[11], b[11]), Xor8(a[12], b[12]),
    Xor8(a[13], b[13]), Xor8(a[14], b[14]), Xor8(a[15], b[15]), Xor8(a[16], b[16])>>

RECURSIVE XorBytes(_, _)
XorBytes(a, b) ==
  IF Len(a) = 0 THEN <<>> ELSE <<Xor8(Head(a), Head(b))>> \o XorBytes(Tail(a), Tail(b))

RECURSIVE Zeros(_)
Zeros(n) == IF n = 0 THEN <<>> ELSE <<0>> \o Zeros(n - 1)

\* the little-endian encoding of n in w bytes
RECURSIVE LE(_, _)
LE(n, w) == IF w = 0 THEN <<>> ELSE <<n % 256>> \o LE(n \div 256, w - 1)

Min(a, b) == IF a < b THEN a ELSE b

(***************************************************************************)
(* 4.1 Block cipher primitive: AES-128 / AES-256 block encryption          *)
(* (FIPS 197).  A block is 16 bytes, column by column.                     *)
(***************************************************************************)
SBox ==
  <<
      99, 124, 119, 123, 242, 107, 111, 197,  48,   1, 103,  43, 254, 215, 171, 118,
     202, 130, 201, 125, 250,  89,  71, 240, 173, 212, 162, 175, 156, 164, 114, 192,
     183, 253, 147,  38,  54,  63, 247, 204,  52, 165, 229, 241, 113, 216,  49,  21,
       4, 199,  35, 195,  24, 150,   5, 154,   7,  18, 128, 226, 235,  39, 178, 117,
       9, 131,  44,  26,  27, 110,  90, 160,  82,  59, 214, 179,  41, 227,  47, 132,
      83, 209,   0, 237,  32, 252, 177,  91, 106, 203, 190,  57,  74,  76,  88, 207,
     208, 239, 170, 251,  67,  77,  51, 133,  69, 249,   2, 127,  80,  60, 159, 168,
      81, 163,  64, 143, 146, 157,  56, 245, 188, 182, 218,  33,  16, 255, 243, 210,
     205,  12,  19, 236,  95, 151,  68,  23, 196, 167, 126,  61, 100,  93,  25, 115,
      96, 129,  79, 220,  34,  42, 144, 136,  70, 238, 184,  20, 222,  94,  11, 219,
     224,  50,  58,  10,  73,   6,  36,  92, 194, 211, 172,  98, 145, 149, 228, 121,
     231, 200,  55, 109, 141, 213,  78, 169, 108,  86, 244, 234, 101, 122, 174,   8,
     186, 120,  37,  46,  28, 166, 180, 198, 232, 221, 116,  31,  75, 189, 139, 138,
     112,  62, 181, 102,  72,   3, 246,  14,  97,  53,  87, 185, 134, 193,  29, 158,
     225, 248, 152,  17, 105, 217, 142, 148, 155,  30, 135, 233, 206,  85,  40, 223,
     140, 161, 137,  13, 191, 230,  66, 104,  65, 153,  45,  15, 176,  84, 187,  22
  >>

Rcon == <<1, 2, 4, 8, 16, 32, 64, 128, 27, 54>>

\* multiplication by x in GF(2^8) modulo x^8 + x^4 + x^3 + x + 1
XTime(a) == IF a >= 128 THEN Xor8((a * 2) % 256, 27) ELSE a * 2

SubWord(w) == <<SBox[w[1] + 1], SBox[w[2] + 1], SBox[w[3] + 1], SBox[w[4] + 1]>>

RotWord(w) == <<w[2], w[3], w[4], w[1]>>

\* the key schedule; nk is the key's length in words and the schedule holds
\* 4 * (nk + 7) words.  NextWord appends the word that follows w.
NextWord(w, nk) ==
  LET n == Len(w) \div 4
      prev == SubSeq(w, 4 * n - 3, 4 * n)
      back == SubSeq(w, 4 * (n - nk) + 1, 4 * (n - nk) + 4)
      temp == IF n % nk = 0
                THEN XorWord(SubWord(RotWord(prev)), <<Rcon[n \div nk], 0, 0, 0>>)
              ELSE IF nk > 6 /\ n % nk = 4 THEN SubWord(prev)
              ELSE prev
  IN w \o XorWord(back, temp)

RECURSIVE GrowBy(_, _, _)
GrowBy(w, nk, count) ==
  IF Len(w) = 0 \/ count = 0 THEN w ELSE GrowBy(NextWord(w, nk), nk, count - 1)

\* grown nk words at a time and cut to length
RECURSIVE ExpandFrom(_, _)
ExpandFrom(w, nk) ==
  IF Len(w) >= 16 * (nk + 7) THEN SubSeq(w, 1, 16 * (nk + 7))
  ELSE ExpandFrom(GrowBy(w, nk, nk), nk)

KeyExpansion(key) == ExpandFrom(key, Len(key) \div 4)

SubBytes(s) ==
  <<SBox[s[1] + 1], SBox[s[2] + 1], SBox[s[3] + 1], SBox[s[4] + 1],
    SBox[s[5] + 1], SBox[s[6] + 1], SBox[s[7] + 1], SBox[s[8] + 1],
    SBox[s[9] + 1], SBox[s[10] + 1], SBox[s[11] + 1], SBox[s[12] + 1],
    SBox[s[13] + 1], SBox[s[14] + 1], SBox[s[15] + 1], SBox[s[16] + 1]>>

ShiftRows(s) ==
  <<s[1], s[6], s[11], s[16], s[5], s[10], s[15], s[4],
    s[9], s[14], s[3], s[8], s[13], s[2], s[7], s[12]>>

MixColumn(a) ==
  <<Xor8(Xor8(XTime(a[1]), Xor8(XTime(a[2]), a[2])), Xor8(a[3], a[4])),
    Xor8(Xor8(a[1], XTime(a[2])), Xor8(Xor8(XTime(a[3]), a[3]), a[4])),
    Xor8(Xor8(a[1], a[2]), Xor8(XTime(a[3]), Xor8(XTime(a[4]), a[4]))),
    Xor8(Xor8(Xor8(XTime(a[1]), a[1]), a[2]), Xor8(a[3], XTime(a[4])))>>

MixColumns(s) ==
  MixColumn(SubSeq(s, 1, 4)) \o MixColumn(SubSeq(s, 5, 8))
    \o MixColumn(SubSeq(s, 9, 12)) \o MixColumn(SubSeq(s, 13, 16))

RoundKey(rk, r) == SubSeq(rk, 16 * r + 1, 16 * r + 16)

\* rounds r .. nr on the state s (a state is always one block)
RECURSIVE Rounds(_, _, _, _)
Rounds(s, rk, r, nr) ==
  IF Len(s) # 16 THEN s
  ELSE IF r = nr
    THEN XorBlock(ShiftRows(SubBytes(s)), RoundKey(rk, nr))
    ELSE Rounds(XorBlock(MixColumns(ShiftRows(SubBytes(s))), RoundKey(rk, r)), rk, r + 1, nr)

\* BlockEncrypt under the expanded key rk (10 rounds for AES-128, 14 for AES-256)
EncryptBlock(rk, block) ==
  Rounds(XorBlock(block, RoundKey(rk, 0)), rk, 1, (Len(rk) \div 16) - 1)

(***************************************************************************)
(* 4.2 POLYVAL: field elements of GF(2^128) are 16 bytes, little-endian,   *)
(* bit k of the string being the coefficient of x^k; the field polynomial  *)
(* is x^128 + x^127 + x^126 + x^121 + 1.                                   *)
(***************************************************************************)
ShiftRight1(r) ==
  <<(r[1] \div 2) + 128 * (r[2] % 2), (r[2] \div 2) + 128 * (r[3] % 2),
    (r[3] \div 2) + 128 * (r[4] % 2), (r[4] \div 2) + 128 * (r[5] % 2),
    (r[5] \div 2) + 128 * (r[6] % 2), (r[6] \div 2) + 128 * (r[7] % 2),
    (r[7] \div 2) + 128 * (r[8] % 2), (r[8] \div 2) + 128 * (r[9] % 2),
    (r[9] \div 2) + 128 * (r[10] % 2), (r[10] \div 2) + 128 * (r[11] % 2),
    (r[11] \div 2) + 128 * (r[12] % 2), (r[12] \div 2) + 128 * (r[13] % 2),
    (r[13] \div 2) + 128 * (r[14] % 2), (r[14] \div 2) + 128 * (r[15] % 2),
    (r[15] \div 2) + 128 * (r[16] % 2),
    r[16] \div 2>>

\* r / x: when the constant coefficient is set the field polynomial is added
\* first, which leaves x^127 + x^126 + x^125 + x^120 (0xe1 in the last byte)
DivX(r) ==
  IF r[1] % 2 = 1
    THEN LET sh == ShiftRight1(r) IN [sh EXCEPT ![16] = Xor8(sh[16], 225)]
    ELSE ShiftRight1(r)

\* one step of the multiplication: b is added when the bit of a is set, and
\* the sum is divided by x
RECURSIVE DotBits(_, _, _, _)
DotBits(acc, b, v, count) ==
  IF Len(acc) # 16 \/ count = 0 THEN acc
  ELSE DotBits(DivX(IF v % 2 = 1 THEN XorBlock(acc, b) ELSE acc), b, v \div 2, count - 1)

\* byte k of a, low bit first
RECURSIVE DotFrom(_, _, _, _)
DotFrom(acc, a, b, k) ==
  IF Len(acc) # 16 \/ k > 16 THEN acc
  ELSE DotFrom(DotBits(acc, b, a[k], 8), a, b, k + 1)

\* the field multiplication of POLYVAL: dot(a, b) = a * b * x^-128
Dot(a, b) == DotFrom(Zeros(16), a, b, 1)

\* Horner's method over the 16-byte blocks of data
RECURSIVE PolyvalFrom(_, _, _)
PolyvalFrom(s, h, data) ==
  IF Len(s) # 16 \/ Len(data) = 0 THEN s
  ELSE PolyvalFrom(Dot(XorBlock(s, SubSeq(data, 1, 16)), h), h, SubSeq(data, 17, Len(data)))

Polyval(h, data) == PolyvalFrom(Zeros(16), h, data)

Pad16(b) == IF Len(b) % 16 = 0 THEN b ELSE b \o Zeros(16 - (Len(b) % 16))

(***************************************************************************)
(* 4.3 Key derivation: block k is LE32(k) || nonce, encrypted under the    *)
(* master key, of which the first 8 bytes are kept.                        *)
(***************************************************************************)
RECURSIVE KdfFrom(_, _, _, _)
KdfFrom(rk, nonce, k, n) ==
  IF k = n THEN <<>>
  ELSE SubSeq(EncryptBlock(rk, LE(k, 4) \o nonce), 1, 8) \o KdfFrom(rk, nonce, k + 1, n)

DeriveKeys(key, nonce) ==
  LET ks == KdfFrom(KeyExpansion(key), nonce, 0, (16 + Len(key)) \div 8)
  IN [mac |-> SubSeq(ks, 1, 16), enc |-> SubSeq(ks, 17, Len(ks))]

(***************************************************************************)
(* 4.4 AEAD orchestrator                                                   *)
(***************************************************************************)
\* steps 3 and 4 of Encrypt: POLYVAL over aad, plaintext and the length block,
\* the nonce XORed in, the top bit cleared, one block encryption
ComputeTag(mac, encRk, nonce, plaintext, aad) ==
  LET s == Polyval(mac, Pad16(aad) \o Pad16(plaintext)
                          \o LE(Len(aad) * 8, 8) \o LE(Len(plaintext) * 8, 8))
      masked == XorBlock(s, nonce \o Zeros(4))
  IN EncryptBlock(encRk, [masked EXCEPT ![16] = masked[16] % 128])

\* step 5: the tag with the top bit of its last byte set
CounterBlock(tag) == [tag EXCEPT ![16] = 128 + (tag[16] % 128)]

\* the next counter block: the first 4 bytes are a little-endian 32-bit
\* counter that wraps, the other 12 bytes stay
Inc32(block) ==
  LET c1 == block[1] + 1
      c2 == block[2] + (c1 \div 256)
      c3 == block[3] + (c2 \div 256)
      c4 == block[4] + (c3 \div 256)
  IN <<c1 % 256, c2 % 256, c3 % 256, c4 % 256>> \o SubSeq(block, 5, 16)

\* step 6: counter mode
RECURSIVE CtrXor(_, _, _)
CtrXor(rk, ctr, data) ==
  IF Len(data) = 0 THEN <<>>
  ELSE LET n == Min(16, Len(data))
       IN XorBytes(SubSeq(data, 1, n), SubSeq(EncryptBlock(rk, ctr), 1, n))
            \o CtrXor(rk, Inc32(ctr), SubSeq(data, n + 1, Len(data)))

\* Encrypt: ciphertext || tag
AeadEncrypt(key, nonce, plaintext, aad) ==
  LET dk == DeriveKeys(key, nonce)
      rk == KeyExpansion(dk.enc)
      tag == ComputeTag(dk.mac, rk, nonce, plaintext, aad)
  IN CtrXor(rk, CounterBlock(tag), plaintext) \o tag

\* Decrypt: the candidate plaintext when the recomputed tag equals the
\* trailing 16 bytes, a failure otherwise and for an input that holds no tag
AeadDecrypt(key, nonce, msg, aad) ==
  IF Len(msg) < 16 THEN [ok |-> FALSE, val |-> <<>>]
  ELSE LET dk == DeriveKeys(key, nonce)
           rk == KeyExpansion(dk.enc)
           tag == SubSeq(msg, Len(msg) - 15, Len(msg))
           candidate == CtrXor(rk, CounterBlock(tag), SubSeq(msg, 1, Len(msg) - 16))
       IN IF Len(candidate) = Len(msg) - 16
               /\ ComputeTag(dk.mac, rk, nonce, candidate, aad) = tag
            THEN [ok |-> TRUE, val |-> candidate]
            ELSE [ok |-> FALSE, val |-> <<>>]


(***************************************************************************)
(* The aes_gcm_siv crate as the wrapper sees it                            *)
(***************************************************************************)
\* KeyInit::new_from_slice of Aes128GcmSiv / Aes256GcmSiv: a cipher for a key
\* of the variant's length, an InvalidLength failure for any other key
KeyLengthOf(key_size) == IF key_size = "Aes128" THEN 16 ELSE 32

NewFromSlice(key_size, key) ==
  IF Len(key) = KeyLengthOf(key_size)
    THEN [ok |-> TRUE, key |-> key]
    ELSE [ok |-> FALSE, key |-> <<>>]

\* Aead::encrypt and Aead::decrypt of a cipher on a Payload {msg, aad}
CipherEncrypt(cipher, nonce, payload) ==
  [ok |-> TRUE, val |-> AeadEncrypt(cipher.key, nonce, payload.msg, payload.aad)]

CipherDecrypt(cipher, nonce, payload) ==
  AeadDecrypt(cipher.key, nonce, payload.msg, payload.aad)

\* the calls a handler makes into the crate, in order, with the handler
\* arguments each one reads
CallNonceFromSlice == [fn |-> "Nonce::from_slice", reads |-> {"nonce"}]

CallNewFromSlice == [fn |-> "new_from_slice", reads |-> {"key"}]

CallCipherEncrypt == [fn |-> "encrypt", reads |-> {"nonce", "plaintext", "aad"}]

CallCipherDecrypt == [fn |-> "decrypt", reads |-> {"nonce", "ciphertext", "aad"}]

(***************************************************************************)
(* src/src/lib.rs                                                          *)
(***************************************************************************)
\* CryptoResult<Vec<u8>>
Ok(v) == [ok |-> TRUE, val |-> v, err |-> "none"]

Err(e) == [ok |-> FALSE, val |-> <<>>, err |-> e]

CryptoError == {"Auth", "InvalidKeySize", "InvalidNonceSize"}

\* match key.len() { 16 => Aes128, 32 => Aes256, _ => return Err(..) }
KeySizeOf_Swapped(key) ==
  IF Len(key) = 16 THEN "Aes256"
  ELSE IF Len(key) = 32 THEN "Aes128"
  ELSE "Invalid"

KeySizeOf_Accepts24(key) ==
  IF Len(key) = 16 THEN "Aes128"
  ELSE IF Len(key) = 32 \/ Len(key) = 24 THEN "Aes256"
  ELSE "Invalid"

KeySizeOf(key) ==
  IF Len(key) = 16 THEN "Aes128"
  ELSE IF Len(key) = 32 THEN "Aes256"
  ELSE "Invalid"

\* Payload { msg: plaintext, aad }
EncryptPayload_NoAad(plaintext, aad) == [msg |-> plaintext, aad |-> <<>>]

EncryptPayload_Swapped(plaintext, aad) == [msg |-> aad, aad |-> plaintext]

EncryptPayload(plaintext, aad) == [msg |-> plaintext, aad |-> aad]

\* Payload { msg: ciphertext, aad }
DecryptPayload_NoAad(ciphertext, aad) == [msg |-> ciphertext, aad |-> <<>>]

DecryptPayload(ciphertext, aad) == [msg |-> ciphertext, aad |-> aad]

\* .map_err(|_| CryptoError::Auth)
MapAeadError_KeySize(r) == IF r.ok THEN Ok(r.val) ELSE Err("InvalidKeySize")

MapAeadError(r) == IF r.ok THEN Ok(r.val) ELSE Err("Auth")

\* pub fn encrypt(key, nonce, plaintext, aad) -> CryptoResult<Vec<u8>>
encrypt(key, nonce, plaintext, aad) ==
  IF Len(nonce) # NONCE_LENGTH
    THEN [result |-> Err("InvalidNonceSize"), calls |-> <<>>]
  ELSE IF KeySizeOf(key) = "Invalid"
    THEN [result |-> Err("InvalidKeySize"), calls |-> <<>>]
  ELSE LET cipher == NewFromSlice(KeySizeOf(key), key)
       IN IF ~cipher.ok
            THEN [result |-> Err("InvalidKeySize"),
                  calls |-> <<CallNonceFromSlice, CallNewFromSlice>>]
            ELSE [result |->
                    MapAeadError(
                      CipherEncrypt(cipher, nonce, EncryptPayload(plaintext, aad))),
                  calls |->
                    <<CallNonceFromSlice, CallNewFromSlice, CallCipherEncrypt>>]

\* pub fn decrypt(key, nonce, ciphertext, aad) -> CryptoResult<Vec<u8>>
decrypt_KeyFirst(key, nonce, ciphertext, aad) ==
  IF KeySizeOf(key) = "Invalid"
    THEN [result |-> Err("InvalidKeySize"), calls |-> <<>>]
  ELSE IF Len(nonce) # NONCE_LENGTH
    THEN [result |-> Err("InvalidNonceSize"), calls |-> <<>>]
  ELSE LET cipher == NewFromSlice(KeySizeOf(key), key)
       IN IF ~cipher.ok
            THEN [result |-> Err("InvalidKeySize"),
                  calls |-> <<CallNonceFromSlice, CallNewFromSlice>>]
            ELSE [result |->
                    MapAeadError(
                      CipherDecrypt(cipher, nonce, DecryptPayload(ciphertext, aad))),
                  calls |->
                    <<CallNonceFromSlice, CallNewFromSlice, CallCipherDecrypt>>]

decrypt_ShortAsNonceError(key, nonce, ciphertext, aad) ==
  IF Len(nonce) # NONCE_LENGTH \/ Len(ciphertext) < TAG_LENGTH
    THEN [result |-> Err("InvalidNonceSize"), calls |-> <<>>]
  ELSE IF KeySizeOf(key) = "Invalid"
    THEN [result |-> Err("InvalidKeySize"), calls |-> <<>>]
  ELSE LET cipher == NewFromSlice(KeySizeOf(key), key)
       IN IF ~cipher.ok
            THEN [result |-> Err("InvalidKeySize"),
                  calls |-> <<CallNonceFromSlice, CallNewFromSlice>>]
            ELSE [result |->
                    MapAeadError(
                      CipherDecrypt(cipher, nonce, DecryptPayload(ciphertext, aad))),
                  calls |->
                    <<CallNonceFromSlice, CallNewFromSlice, CallCipherDecrypt>>]

decrypt(key, nonce, ciphertext, aad) ==
  IF Len(nonce) # NONCE_LENGTH
    THEN [result |-> Err("InvalidNonceSize"), calls |-> <<>>]
  ELSE IF KeySizeOf(key) = "Invalid"
    THEN [result |-> Err("InvalidKeySize"), calls |-> <<>>]
  ELSE LET cipher == NewFromSlice(KeySizeOf(key), key)
       IN IF ~cipher.ok
            THEN [result |-> Err("InvalidKeySize"),
                  calls |-> <<CallNonceFromSlice, CallNewFromSlice>>]
            ELSE [result |->
                    MapAeadError(
                      CipherDecrypt(cipher, nonce, DecryptPayload(ciphertext, aad))),
                  calls |->
                    <<CallNonceFromSlice, CallNewFromSlice, CallCipherDecrypt>>]

\* OsRng.try_fill_bytes(&mut unique_seed): the answer of the OS to one request,
\* [ok, bytes]; bytes is the content of the 12-byte buffer afterwards
TryFillBytes(os, request) == os[request]

\* pub fn generate_nonce() -> Vec<u8>; os is what the OS would answer to the
\* first, second, ... request.  unwrap() panics on a failed request.
generate_nonce_IgnoreError(os) ==
  LET filled == TryFillBytes(os, 1)
  IN [called |-> TRUE, panicked |-> FALSE, val |-> filled.bytes, requests |-> 1]

generate_nonce(os) ==
  LET filled == TryFillBytes(os, 1)
  IN IF filled.ok
       THEN [called |-> TRUE, panicked |-> FALSE, val |-> filled.bytes,
             requests |-> 1]
       ELSE [called |-> TRUE, panicked |-> TRUE, val |-> <<>>, requests |-> 1]

(***************************************************************************)
(* Inputs of the callers (src/tests/test_vectors.rs, src/src/main.rs)      *)
(***************************************************************************)
\* hex "01" followed by zeros, n bytes
OneThenZeros(n) == <<1>> \o Zeros(n - 1)

\* the nonce of every test vector
TestNonce == <<3>> \o Zeros(11)

\* the RFC 8452 vectors of the test suite
TestVectors ==
  {
    [key |-> OneThenZeros(16), nonce |-> TestNonce, plaintext |-> <<>>, aad |-> <<>>,
     ciphertext |->
       <<220, 32, 226, 216, 63, 37, 112, 91, 180, 158, 67, 158, 202, 86, 222, 37>>],
    [key |-> OneThenZeros(16), nonce |-> TestNonce, plaintext |-> OneThenZeros(8), aad |-> <<>>,
     ciphertext |->
       <<181, 216, 57, 51, 10, 199, 183, 134, 87, 135, 130, 255, 246, 1, 59, 129, 91,
       40, 124, 34, 73, 58, 54, 76>>],
    [key |-> OneThenZeros(16), nonce |-> TestNonce, plaintext |-> OneThenZeros(12), aad |-> <<>>,
     ciphertext |->
       <<115, 35, 234, 97, 208, 89, 50, 38, 0, 71, 217, 66, 164, 151, 141, 179, 87, 57,
       26, 11, 196, 253, 236, 139, 13, 16, 102, 57>>],
    [key |-> OneThenZeros(16), nonce |-> TestNonce, plaintext |-> OneThenZeros(16), aad |-> <<>>,
     ciphertext |->
       <<116, 63, 124, 128, 119, 171, 37, 248, 98, 78, 46, 148, 133, 121, 207, 119, 48,
       58, 175, 144, 246, 254, 33, 25, 156, 96, 104, 87, 116, 55, 160, 196>>],
    [key |-> OneThenZeros(16), nonce |-> TestNonce, plaintext |-> OneThenZeros(16), aad |-> OneThenZeros(12),
     ciphertext |->
       <<136, 79, 227, 213, 249, 208, 177, 13, 221, 23, 126, 112, 241, 20, 244, 25, 145,
       117, 69, 183, 146, 187, 170, 142, 174, 187, 21, 28, 85, 67, 61, 227>>],
    [key |-> OneThenZeros(32), nonce |-> TestNonce, plaintext |-> <<>>, aad |-> <<>>,
     ciphertext |->
       <<7, 245, 244, 22, 155, 191, 85, 168, 64, 12, 212, 126, 166, 253, 64, 15>>],
    [key |-> OneThenZeros(32), nonce |-> TestNonce, plaintext |-> OneThenZeros(8), aad |-> <<>>,
     ciphertext |->
       <<194, 239, 50, 142, 92, 113, 200, 59, 132, 49, 34, 19, 15, 115, 100, 183, 97,
       224, 185, 116, 39, 227, 223, 40>>],
    [key |-> OneThenZeros(32), nonce |-> TestNonce, plaintext |-> OneThenZeros(16), aad |-> OneThenZeros(12),
     ciphertext |->
       <<56, 234, 63, 191, 96, 220, 159, 149, 88, 105, 133, 135, 113, 181, 20, 95, 88,
       138, 65, 125, 240, 197, 22, 77, 129, 47, 163, 102, 20, 41, 236, 68>>]
  }

\* key lengths the callers also try (test_invalid_key_size uses 12)
InvalidKeyLengths == {0, 12, 15, 17, 24, 31, 33}

\* nonce lengths the callers also try (test_invalid_nonce_size uses 8)
InvalidNonceLengths == {0, 8, 11, 13, 16}

Keys == {OneThenZeros(16), OneThenZeros(32)} \cup {Zeros(n) : n \in InvalidKeyLengths}

Nonces == {TestNonce} \cup {Zeros(n) : n \in InvalidNonceLengths}

\* plaintexts: those of the vectors first, longer ones after
PlainAt(i) ==
  CASE i = 1 -> <<>>
    [] i = 2 -> OneThenZeros(8)
    [] i = 3 -> OneThenZeros(12)
    [] i = 4 -> OneThenZeros(16)
    [] OTHER -> OneThenZeros(16) \o <<2>> \o Zeros(8 * (i - 4) - 1)

Plaintexts == {PlainAt(i) : i \in 1..MaxPlain}

\* aads: those of the vectors, a one-byte prefix of one of them, the aad of
\* test_incorrect_aad, longer ones after
AadAt(j) ==
  CASE j = 1 -> <<>>
    [] j = 2 -> OneThenZeros(12)
    [] j = 3 -> <<1>>
    [] j = 4 -> OneThenZeros(11) \o <<1>>
    [] OTHER -> OneThenZeros(j + 12)

Aads == {AadAt(j) : j \in 1..MaxAad}

\* plaintexts of the exhaustive bit-flip runs
TamperPlainAt(i) ==
  CASE i = 1 -> <<>>
    [] i = 2 -> <<42>>
    [] OTHER -> OneThenZeros(8 * (i - 2))

TamperPlaintexts == {TamperPlainAt(i) : i \in 1..MaxTamperPlain}

\* inputs to decrypt that no encrypt call produced
Forged == {Zeros(TAG_LENGTH), OneThenZeros(TAG_LENGTH + 4)}

\* answers of the OS random source: a filled buffer, or a failure that leaves
\* the buffer untouched or partly written
RngAnswers ==
  {[ok |-> TRUE, bytes |-> <<17, 34, 51, 68, 85, 102, 119, 136, 153, 170, 187, 204>>],
   [ok |-> TRUE, bytes |-> Zeros(NONCE_LENGTH)],
   [ok |-> FALSE, bytes |-> Zeros(NONCE_LENGTH)],
   [ok |-> FALSE, bytes |-> <<17, 34, 51, 68>> \o Zeros(NONCE_LENGTH - 4)]}

RngStreams == {<<a, b>> : a \in RngAnswers, b \in {r \in RngAnswers : r.bytes[1] = 0}}

\* c with bit b flipped (bit 0 is the low bit of the first byte)
FlipBit(c, b) == [c EXCEPT ![(b \div 8) + 1] = Xor8(@, 2 ^ (b % 8))]

(***************************************************************************)
(* The callers                                                             *)
(***************************************************************************)
NotCalled == [result |-> Err("not called"), calls |-> <<>>]

NotGenerated == [called |-> FALSE, panicked |-> FALSE, val |-> <<>>, requests |-> 0]

\* a caller that brings its own nonce (the tests; main.rs with --nonce)
InitGiven ==
  /\ pc = "start"
  /\ key_bytes \in Keys
  /\ have_nonce = TRUE
  /\ nonce_bytes \in Nonces
  /\ input \in Plaintexts
  /\ aad_bytes \in Aads
  /\ os_rng = <<>>
  /\ gen = NotGenerated
  /\ enc = NotCalled
  /\ dec_input = <<>>
  /\ dec_aad = <<>>
  /\ dec = NotCalled

\* a caller that asks generate_nonce for one (main.rs without --nonce)
InitNoNonce ==
  /\ pc = "start"
  /\ key_bytes \in Keys
  /\ have_nonce = FALSE
  /\ nonce_bytes = <<>>
  /\ input = PlainAt(2)
  /\ aad_bytes = AadAt(1)
  /\ os_rng \in RngStreams
  /\ gen = NotGenerated
  /\ enc = NotCalled
  /\ dec_input = <<>>
  /\ dec_aad = <<>>
  /\ dec = NotCalled

Init == InitGiven \/ InitNoNonce

GenerateNonce ==
  /\ pc = "start"
  /\ ~have_nonce
  /\ gen' = generate_nonce(os_rng)
  /\ IF gen'.panicked
       THEN pc' = "aborted" /\ UNCHANGED <<have_nonce, nonce_bytes>>
       ELSE pc' = "start" /\ have_nonce' = TRUE /\ nonce_bytes' = gen'.val
  /\ UNCHANGED <<key_bytes, input, aad_bytes, os_rng, enc, dec_input, dec_aad, dec>>

Encrypt ==
  /\ pc = "start"
  /\ have_nonce
  /\ enc' = encrypt(key_bytes, nonce_bytes, input, aad_bytes)
  /\ pc' = "encrypted"
  /\ UNCHANGED <<key_bytes, have_nonce, nonce_bytes, input, aad_bytes, os_rng, gen,
                 dec_input, dec_aad, dec>>

\* one decrypt call with the caller's key and nonce
Decrypt(msg, aad) ==
  /\ dec_input' = msg
  /\ dec_aad' = aad
  /\ dec' = decrypt(key_bytes, nonce_bytes, msg, aad)
  /\ pc' = "decrypted"
  /\ UNCHANGED <<key_bytes, have_nonce, nonce_bytes, input, aad_bytes, os_rng, gen, enc>>

\* decrypt what encrypt returned, with the same aad
DecryptGenuine ==
  /\ pc = "encrypted"
  /\ enc.result.ok
  /\ Decrypt(enc.result.val, aad_bytes)

\* decrypt what encrypt returned, with another aad (test_incorrect_aad)
DecryptWrongAad ==
  /\ pc = "encrypted"
  /\ enc.result.ok
  /\ \E a \in Aads \ {aad_bytes} : Decrypt(enc.result.val, a)

\* decrypt with the low bit of the first byte flipped
\* (test_authentication_failure)
DecryptTampered ==
  /\ pc = "encrypted"
  /\ enc.result.ok
  /\ Decrypt(FlipBit(enc.result.val, 0), aad_bytes)

\* decrypt an input shorter than a tag
DecryptShort ==
  /\ pc = "encrypted"
  /\ \E n \in 0..(TAG_LENGTH - 1) :
       Decrypt(SubSeq(OneThenZeros(TAG_LENGTH), 1, n), aad_bytes)

\* decrypt bytes that came from elsewhere
DecryptForged ==
  /\ pc = "encrypted"
  /\ \E m \in Forged : Decrypt(m, aad_bytes)

Next ==
  \/ GenerateNonce
  \/ Encrypt
  \/ DecryptGenuine
  \/ DecryptWrongAad
  \/ DecryptTampered
  \/ DecryptShort
  \/ DecryptForged

Spec == Init /\ [][Next]_vars

\* the exhaustive bit-flip runs: valid keys and nonce, every bit of c
InitTamper ==
  /\ pc = "start"
  /\ key_bytes \in {OneThenZeros(16), OneThenZeros(32)}
  /\ have_nonce = TRUE
  /\ nonce_bytes = TestNonce
  /\ input \in TamperPlaintexts
  /\ aad_bytes \in {AadAt(1), AadAt(3)}
  /\ os_rng = <<>>
  /\ gen = NotGenerated
  /\ enc = NotCalled
  /\ dec_input = <<>>
  /\ dec_aad = <<>>
  /\ dec = NotCalled

DecryptFlipped ==
  /\ pc = "encrypted"
  /\ enc.result.ok
  /\ \E b \in 0..(8 * Len(enc.result.val) - 1) :
       Decrypt(FlipBit(enc.result.val, b), aad_bytes)

NextTamper == Encrypt \/ DecryptFlipped

SpecTamper == InitTamper /\ [][NextTamper]_vars

(***************************************************************************)
(* Properties                                                              *)
(***************************************************************************)
Encrypted == pc \in {"encrypted", "decrypted"}

Decrypted == pc = "decrypted"

ValidKey == Len(key_bytes) \in {16, 32}

ValidNonce == Len(nonce_bytes) = NONCE_LENGTH

\* decrypt was handed exactly what encrypt returned
GenuineInput == Decrypted /\ enc.result.ok /\ dec_input = enc.result.val

\* decrypt was handed what encrypt returned with one bit flipped
FlippedInput ==
  /\ Decrypted
  /\ enc.result.ok
  /\ \E b \in 0..(8 * Len(enc.result.val) - 1) : dec_input = FlipBit(enc.result.val, b)

\* C1: with a key of 16 or 32 bytes and a nonce of 12 bytes, encrypt succeeds
\* and decrypt of its output under the same aad succeeds and returns exactly
\* the plaintext.
C1_RoundTrip ==
  (Decrypted /\ ValidKey /\ ValidNonce /\ dec_input = enc.result.val
     /\ dec_aad = aad_bytes)
    => enc.result.ok /\ dec.result = Ok(input)

C1_Witness ==
  /\ GenuineInput
  /\ dec_aad = aad_bytes
  /\ Len(key_bytes) = 32
  /\ Len(input) = 12
  /\ Len(aad_bytes) = 1
  /\ dec.result = Ok(input)

\* C2: for each RFC 8452 vector of the test suite (AES-128 and AES-256),
\* encrypt returns the listed ciphertext-with-tag byte for byte.
C2_TestVectors ==
  \A v \in TestVectors :
    (Encrypted /\ key_bytes = v.key /\ nonce_bytes = v.nonce /\ input = v.plaintext
       /\ aad_bytes = v.aad)
      => enc.result = Ok(v.ciphertext)

C2_Witness ==
  \E v \in TestVectors :
    /\ Encrypted
    /\ Len(v.key) = 32
    /\ Len(v.aad) = 12
    /\ key_bytes = v.key /\ nonce_bytes = v.nonce /\ input = v.plaintext
    /\ aad_bytes = v.aad
    /\ enc.result = Ok(v.ciphertext)

\* C3: decrypt of an encrypt output with any single bit flipped, in the
\* ciphertext part or in the tag, returns the error Auth and no plaintext.
C3_TamperSensitivity ==
  FlippedInput /\ dec_aad = aad_bytes => dec.result = Err("Auth")

\* the top bit of the tag, which the counter block overwrites, under AES-256
C3_Witness ==
  /\ Decrypted
  /\ enc.result.ok
  /\ Len(key_bytes) = 32
  /\ Len(input) = 1
  /\ dec_input = FlipBit(enc.result.val, 8 * Len(enc.result.val) - 1)
  /\ dec.result = Err("Auth")

\* C4: decrypt of an encrypt output under an aad other than the one given to
\* encrypt returns the error Auth.
C4_AadBinding ==
  GenuineInput /\ dec_aad # aad_bytes => dec.result = Err("Auth")

\* two aads that pad to the same 16-byte block
C4_Witness ==
  /\ GenuineInput
  /\ aad_bytes = OneThenZeros(12)
  /\ dec_aad = <<1>>
  /\ Len(input) = 16
  /\ dec.result = Err("Auth")

\* the outcome r of a call rejected by validation: an error naming an argument
\* whose length is wrong, InvalidKeySize when only the key's is and
\* InvalidNonceSize when only the nonce's is, no call into the cipher and no
\* bytes returned
Rejected(r) ==
  /\ ~r.result.ok
  /\ r.result.val = <<>>
  /\ r.calls = <<>>
  /\ r.result.err \in {"InvalidKeySize", "InvalidNonceSize"}
  /\ r.result.err = "InvalidKeySize" => ~ValidKey
  /\ r.result.err = "InvalidNonceSize" => ~ValidNonce

C6_ShortInputIsAuth ==
  Decrypted /\ ValidKey /\ ValidNonce
    => /\ Len(dec_input) < TAG_LENGTH => dec.result = Err("Auth")
       /\ ~dec.result.ok => dec.result = Err("Auth")

C6_Witness ==
  /\ Decrypted
  /\ ValidKey
  /\ ValidNonce
  /\ dec_input = <<>>
  /\ dec.result = Err("Auth")
  /\ dec.calls # <<>>

\* C7: with a valid key and nonce, encrypt succeeds and returns
\* len(plaintext) + 16 bytes, whatever the aad and the key size.
C7_OutputLength ==
  Encrypted /\ ValidKey /\ ValidNonce
    => enc.result.ok /\ Len(enc.result.val) = Len(input) + TAG_LENGTH

C7_Witness ==
  /\ Encrypted
  /\ Len(key_bytes) = 16
  /\ Len(input) = 12
  /\ Len(aad_bytes) = 1
  /\ enc.result.ok
  /\ Len(enc.result.val) = 28

\* C9: generate_nonce makes one request to the OS random source; it returns
\* the 12 bytes of that request when it succeeds, and otherwise panics and
\* returns nothing, whatever a second request would have answered.
C9_GenerateNonce ==
  gen.called
    => /\ gen.requests = 1
       /\ os_rng[1].ok
            => /\ ~gen.panicked
               /\ gen.val = os_rng[1].bytes
               /\ Len(gen.val) = NONCE_LENGTH
               /\ have_nonce
               /\ nonce_bytes = gen.val
       /\ ~os_rng[1].ok
            => /\ gen.panicked
               /\ gen.val = <<>>
               /\ pc = "aborted"
               /\ ~have_nonce

\* the first request failed after writing part of the buffer, and a second
\* one would have succeeded
C9_Witness ==
  /\ gen.called
  /\ gen.panicked
  /\ ~os_rng[1].ok
  /\ os_rng[1].bytes # Zeros(NONCE_LENGTH)
  /\ os_rng[2].ok
  /\ pc = "aborted"

\* what validation decided, whatever happened afterwards
ValidationOutcome(r) ==
  IF r.calls = <<>> /\ ~r.result.ok THEN r.result.err ELSE "passed"

\* C10: encrypt and decrypt validate the nonce length first and the key length
\* second: both return the same validation outcome, InvalidNonceSize whenever
\* the nonce length is not 12, also when the key length is wrong too.
C10_ValidationOrder ==
  /\ Encrypted /\ ~ValidNonce => enc.result = Err("InvalidNonceSize")
  /\ Encrypted /\ ValidNonce /\ ~ValidKey => enc.result = Err("InvalidKeySize")
  /\ Decrypted /\ ~ValidNonce => dec.result = Err("InvalidNonceSize")
  /\ Decrypted /\ ValidNonce /\ ~ValidKey => dec.result = Err("InvalidKeySize")
  /\ Decrypted => ValidationOutcome(enc) = ValidationOutcome(dec)

C10_Witness ==
  /\ Decrypted
  /\ Len(key_bytes) = 12
  /\ Len(nonce_bytes) = 8
  /\ enc.result = Err("InvalidNonceSize")
  /\ dec.result = Err("InvalidNonceSize")
====
